---------------------------- MODULE Spec2Model ----------------------------
(***************************************************************************)
(* University rankings dashboard (src/app.py) and static report script     *)
(* (src/university-rankings-analysis.py).                                  *)
(*                                                                         *)
(* A DataFrame is a record [columns, rows]: columns is the ordered list of *)
(* column names, rows the ordered list of rows, each row a function from   *)
(* column name to cell value.  A Series is a sequence of cell values.      *)
(* A value_counts() result is a sequence of [key, count] entries.          *)
(***************************************************************************)
EXTENDS Integers, Sequences, FiniteSets, TLC

(* ------------------------------ bounds --------------------------------- *)

\* longest table loaded into the dashboard
MaxRows == 3
\* largest head(n) argument tried on the top-countries / top-cities charts
MaxEntries == 3
\* longest table loaded into the report script
MaxScriptRows == 7

\* strings of the model, listed in ascending lexicographic (code point) order
KeyOrder ==
    << "Beijing", "Berlin", "Boston", "Canada", "China", "Germany", "Japan",
       "London", "Oxford", "Tokyo", "Toronto", "UK", "USA", "X" >>

(* --------------------------- pandas helpers ---------------------------- *)

Min(a, b) == IF a <= b THEN a ELSE b

Range(s) == {s[k] : k \in DOMAIN s}

NaN == "NaN"

\* a sequence written as a function over 1..n, as the tuple of its values
Tuple(s) == SubSeq(s, 1, Len(s))

\* the ascending sequence of a finite set of integers
Ascending(S) ==
    Tuple([k \in 1..Cardinality(S) |->
            CHOOSE i \in S : Cardinality({j \in S : j < i}) = k - 1])

RECURSIVE SumSeq(_)
SumSeq(s) == IF s = << >> THEN 0 ELSE Head(s) + SumSeq(Tail(s))

BaseColumns == << "Global Rank", "University", "Country", "City" >>

\* one line of 'top universities.csv'
CsvRow(rank, country, city) ==
    ("Global Rank" :> rank) @@ ("University" :> "University")
        @@ ("Country" :> country) @@ ("City" :> city)

\* pd.read_csv: the rows of the file under the header's columns
read_csv(rows) == [columns |-> BaseColumns, rows |-> rows]

\* len(df)
len(frame) == Len(frame.rows)

\* df[c]
Column(frame, c) == Tuple([i \in DOMAIN frame.rows |-> frame.rows[i][c]])

\* the values of the series at the positions idx, in idx's order
Take(series, idx) == Tuple([k \in DOMAIN idx |-> series[idx[k]]])

\* df[mask]: the rows whose index is in keep, in their original order
BooleanIndex(frame, keep) ==
    [columns |-> frame.columns, rows |-> Take(frame.rows, Ascending(keep))]

\* df[c] = values: overwrite the column, or append it as the last column
SetColumn(frame, c, values) ==
    [columns |-> IF \E k \in DOMAIN frame.columns : frame.columns[k] = c
                 THEN frame.columns
                 ELSE Append(frame.columns, c),
     rows    |-> Tuple([i \in DOMAIN frame.rows |->
                            (c :> values[i]) @@ frame.rows[i]])]

\* Series.unique(): the distinct values in order of first appearance
unique(series) ==
    Take(series,
         Ascending({i \in DOMAIN series : \A j \in 1..(i - 1) : series[j] # series[i]}))

\* Series.sort_values(ascending=False) on a counts series: descending by
\* count, entries with equal counts keeping their relative order
sort_values_desc(counts) ==
    LET n == Len(counts)
        pos(i) == Cardinality({j \in 1..n : counts[j].count > counts[i].count})
                  + Cardinality({j \in 1..(i - 1) : counts[j].count = counts[i].count})
                  + 1
    IN  Tuple([p \in 1..n |-> counts[CHOOSE i \in 1..n : pos(i) = p]])

\* the mutant of CountOf: the first cell of the series is not counted
CountOf_after_first(series, key) ==
    Cardinality({i \in DOMAIN series : i > 1 /\ series[i] = key})

\* the number of cells of the series equal to key
CountOf(series, key) == Cardinality({i \in DOMAIN series : series[i] = key})

\* one [key, count] entry per key, in the keys' order
CountKeys(series, keys) ==
    Tuple([k \in DOMAIN keys |->
            [key |-> keys[k], count |-> CountOf(series, keys[k])]])

\* Series.value_counts() of an object column: one entry per distinct value
\* (first-appearance order), then sorted by count descending
value_counts(series) == sort_values_desc(CountKeys(series, unique(series)))

\* Series.value_counts() of a categorical column: one entry per category,
\* empty categories included, then sorted by count descending
value_counts_categorical(series, categories) ==
    sort_values_desc(CountKeys(series, categories))

\* the mutant of head: one entry too many
head_one_more(s, n) == SubSeq(s, 1, Min(n + 1, Len(s)))

\* Series.head(n) / DataFrame.head(n) for n >= 0
head(s, n) == SubSeq(s, 1, Min(n, Len(s)))


(* ------------------------- shared by both files ------------------------ *)

\* bins=[0, 100, 500, 1000, 5000, float('inf')]: the finite edges; the last
\* interval is open-ended
ClusterBins == << 0, 100, 500, 1000, 5000 >>

ClusterLabels ==
    << "Elite (1-100)", "Premier (101-500)", "Distinguished (501-1000)",
       "Notable (1001-5000)", "Emerging (5000+)" >>

\* the mutant of cut: intervals closed on the left, [lo, hi), as right=False
cut_left_closed(x, bins, labels) ==
    LET k == Cardinality({b \in DOMAIN bins : bins[b] <= x})
    IN  IF k = 0 THEN NaN ELSE labels[k]

\* pd.cut(x, bins + [inf], labels) with the default right=True: x falls in
\* the interval (bins[k], bins[k+1]]; at or below the first edge it is NaN
cut(x, bins, labels) ==
    LET k == Cardinality({b \in DOMAIN bins : bins[b] < x})
    IN  IF k = 0 THEN NaN ELSE labels[k]

\* Series.mean(): NaN on an empty series, else the sum over the length
mean(series) ==
    IF Len(series) = 0
    THEN [nan |-> TRUE, num |-> 0, den |-> 1]
    ELSE [nan |-> FALSE, num |-> SumSeq(series), den |-> Len(series)]

(* ------------------------------ src/app.py ----------------------------- *)

VARIABLES
    df,                   \* load_data(): the cached table
    selected_countries,   \* the multiselect's value
    rank_range,           \* the rank slider's value (lo, hi)
    num_entries,          \* the entries slider's value
    filtered_df,          \* main's local table
    pc,                   \* main's position
    err,                  \* the exception that ended main, or "none"
    key_metrics,          \* the st.metric calls made, (label, value) in order
    world_map,            \* create_world_map: country_counts
    top_countries,        \* create_top_countries_chart: top_countries
    top_cities,           \* create_top_cities_chart: top_cities
    ranking_distribution, \* create_ranking_distribution: the histogram's x, nbins
    excellence_clusters,  \* create_excellence_clusters: cluster_counts
    raw_data              \* st.dataframe's argument, when the box is ticked

app_vars ==
    << df, selected_countries, rank_range, num_entries, filtered_df, pc, err,
       key_metrics, world_map, top_countries, top_cities,
       ranking_distribution, excellence_clusters, raw_data >>

\* src/university-rankings-analysis.py
VARIABLES
    script_df,    \* the module's global df
    script_err,   \* the exception that ended the script, or "none"
    script_last,  \* the function of the __main__ block called last
    script_ret,   \* what it returned (or the data it plotted)
    lorenz_curve  \* the y values of the Lorenz curve, while it is the plot shown

script_vars == << script_df, script_err, script_last, script_ret, lorenz_curve >>

vars == << app_vars, script_vars >>

\* slider defaults and limits
RankRangeDefaultLo == 1
RankRangeDefaultHi == 1000
NumEntriesMin == 5
NumEntriesMax == 20
NumEntriesDefault == 10
HistogramBins == 50

\* a local name not bound yet
NoFrame == [columns |-> << >>, rows |-> << >>]

\* the mutant of filter_data: the upper rank bound exclusive
filter_data_exclusive(frame, countries, range) ==
    LET copy == frame
        byCountry ==
            IF countries # {}
            THEN BooleanIndex(copy,
                    {i \in DOMAIN copy.rows : copy.rows[i]["Country"] \in countries})
            ELSE copy
    IN  BooleanIndex(byCountry,
            {i \in DOMAIN byCountry.rows :
                /\ byCountry.rows[i]["Global Rank"] >= range[1]
                /\ byCountry.rows[i]["Global Rank"] < range[2]})

\* the mutant of filter_data: the two ends of the range put in order first
filter_data_ordered(frame, countries, range) ==
    LET copy == frame
        lo == Min(range[1], range[2])
        hi == IF range[1] <= range[2] THEN range[2] ELSE range[1]
        byCountry ==
            IF countries # {}
            THEN BooleanIndex(copy,
                    {i \in DOMAIN copy.rows : copy.rows[i]["Country"] \in countries})
            ELSE copy
    IN  BooleanIndex(byCountry,
            {i \in DOMAIN byCountry.rows :
                /\ byCountry.rows[i]["Global Rank"] >= lo
                /\ byCountry.rows[i]["Global Rank"] <= hi})

\* main, 'Filter data based on selections'
filter_data(frame, countries, range) ==
    LET copy == frame
        byCountry ==
            IF countries # {}
            THEN BooleanIndex(copy,
                    {i \in DOMAIN copy.rows : copy.rows[i]["Country"] \in countries})
            ELSE copy
    IN  BooleanIndex(byCountry,
            {i \in DOMAIN byCountry.rows :
                /\ byCountry.rows[i]["Global Rank"] >= range[1]
                /\ byCountry.rows[i]["Global Rank"] <= range[2]})

\* int(df['Global Rank'].min()) raises: the minimum of no ranks is NaN
rank_slider_raises(frame) == Len(Column(frame, "Global Rank")) = 0

\* int(x) of a float: ValueError on NaN, else truncation (x >= 0 here)
python_int(x) == x.num \div x.den

\* the three metrics main shows before the average
count_metrics(frame) ==
    << << "Total Universities", len(frame) >>,
       << "Countries", Len(unique(Column(frame, "Country"))) >>,
       << "Cities", Len(unique(Column(frame, "City"))) >> >>

\* create_world_map: country_counts
country_counts_of(frame) == value_counts(Column(frame, "Country"))

\* create_top_countries_chart: top_countries
top_countries_of(frame, num_countries) ==
    head(value_counts(Column(frame, "Country")), num_countries)

\* create_top_cities_chart: top_cities
top_cities_of(frame, num_cities) ==
    head(value_counts(Column(frame, "City")), num_cities)

\* create_excellence_clusters: the frame with its Ranking_Cluster column
with_ranking_cluster(frame) ==
    SetColumn(frame, "Ranking_Cluster",
        Tuple([i \in DOMAIN frame.rows |->
                cut(frame.rows[i]["Global Rank"], ClusterBins, ClusterLabels)]))

\* create_excellence_clusters: cluster_counts
cluster_counts_of(frame) ==
    value_counts_categorical(Column(frame, "Ranking_Cluster"), ClusterLabels)


(* --------------------------- main(), step by step ---------------------- *)

\* 'Sidebar filters': the widgets are built around the values they hold; the
\* rank slider's limits are int() of the least and greatest rank, which is
\* int(NaN), a ValueError, on a table with no rows
Sidebar ==
    /\ pc = "sidebar"
    /\ IF rank_slider_raises(df)
       THEN err' = "ValueError" /\ pc' = "error"
       ELSE err' = err /\ pc' = "filter"
    /\ UNCHANGED << script_vars, df, selected_countries, rank_range, num_entries,
                    filtered_df, key_metrics, world_map, top_countries, top_cities,
                    ranking_distribution, excellence_clusters, raw_data >>

\* 'Filter data based on selections'
FilterData ==
    /\ pc = "filter"
    /\ filtered_df' = filter_data(df, selected_countries, rank_range)
    /\ pc' = "key_metrics"
    /\ UNCHANGED << script_vars, df, selected_countries, rank_range, num_entries, err,
                    key_metrics, world_map, top_countries, top_cities,
                    ranking_distribution, excellence_clusters, raw_data >>

\* 'Display key metrics': three counts, then int() of the mean rank, which
\* raises ValueError when the mean is NaN and ends the run
KeyMetrics ==
    /\ pc = "key_metrics"
    /\ LET m == mean(Column(filtered_df, "Global Rank"))
       IN  IF m.nan
           THEN /\ key_metrics' = count_metrics(filtered_df)
                /\ err' = "ValueError"
                /\ pc' = "error"
           ELSE /\ key_metrics' =
                       Append(count_metrics(filtered_df),
                              << "Average Rank", python_int(m) >>)
                /\ err' = err
                /\ pc' = "world_map"
    /\ UNCHANGED << script_vars, df, selected_countries, rank_range, num_entries, filtered_df,
                    world_map, top_countries, top_cities,
                    ranking_distribution, excellence_clusters, raw_data >>

\* create_world_map(filtered_df)
WorldMap ==
    /\ pc = "world_map"
    /\ world_map' = country_counts_of(filtered_df)
    /\ pc' = "top_countries"
    /\ UNCHANGED << script_vars, df, selected_countries, rank_range, num_entries, filtered_df,
                    err, key_metrics, top_countries, top_cities,
                    ranking_distribution, excellence_clusters, raw_data >>

\* create_top_countries_chart(filtered_df, num_entries)
TopCountries ==
    /\ pc = "top_countries"
    /\ top_countries' = top_countries_of(filtered_df, num_entries)
    /\ pc' = "top_cities"
    /\ UNCHANGED << script_vars, df, selected_countries, rank_range, num_entries, filtered_df,
                    err, key_metrics, world_map, top_cities,
                    ranking_distribution, excellence_clusters, raw_data >>

\* create_top_cities_chart(filtered_df, num_entries)
TopCities ==
    /\ pc = "top_cities"
    /\ top_cities' = top_cities_of(filtered_df, num_entries)
    /\ pc' = "ranking_distribution"
    /\ UNCHANGED << script_vars, df, selected_countries, rank_range, num_entries, filtered_df,
                    err, key_metrics, world_map, top_countries,
                    ranking_distribution, excellence_clusters, raw_data >>

\* create_ranking_distribution(filtered_df): the figure carries the rank
\* column; the chart library bins it when it draws
RankingDistribution ==
    /\ pc = "ranking_distribution"
    /\ ranking_distribution' = << Column(filtered_df, "Global Rank"), HistogramBins >>
    /\ pc' = "excellence_clusters"
    /\ UNCHANGED << script_vars, df, selected_countries, rank_range, num_entries, filtered_df,
                    err, key_metrics, world_map, top_countries, top_cities,
                    excellence_clusters, raw_data >>

\* create_excellence_clusters(filtered_df): assigns the Ranking_Cluster
\* column on the frame it was passed, then counts it
ExcellenceClusters ==
    /\ pc = "excellence_clusters"
    /\ filtered_df' = with_ranking_cluster(filtered_df)
    /\ excellence_clusters' = cluster_counts_of(filtered_df')
    /\ pc' = "raw_data"
    /\ UNCHANGED << script_vars, df, selected_countries, rank_range, num_entries,
                    err, key_metrics, world_map, top_countries, top_cities,
                    ranking_distribution, raw_data >>

\* 'Detailed Data View': st.dataframe(filtered_df) when the box is ticked
RawData ==
    /\ pc = "raw_data"
    /\ \E checked \in BOOLEAN :
          raw_data' = IF checked THEN << filtered_df >> ELSE << >>
    /\ pc' = "done"
    /\ UNCHANGED << script_vars, df, selected_countries, rank_range, num_entries, filtered_df,
                    err, key_metrics, world_map, top_countries, top_cities,
                    ranking_distribution, excellence_clusters >>

\* one run of main() after the widgets were read
Run ==
    \/ Sidebar
    \/ FilterData
    \/ KeyMetrics
    \/ WorldMap
    \/ TopCountries
    \/ TopCities
    \/ RankingDistribution
    \/ ExcellenceClusters
    \/ RawData

(* ------------------------------ inputs --------------------------------- *)

\* all tables of at most n rows drawn from rows
Tables(n, rows) == UNION {[1..k -> rows] : k \in 0..n}

\* the dashboard's tables: two ranks, two countries
SessionRows ==
    {CsvRow(r, c[1], c[2]) : r \in {1, 2}, c \in {<< "UK", "London" >>, << "USA", "Boston" >>}}

\* what the country multiselect may hold; "X" is in no table
CountryChoices == SUBSET {"UK", "USA", "X"}

\* what the rank slider may hold, lo > hi included
RankRangeChoices == {<< lo, hi >> : lo \in 0..2, hi \in 0..2} \cup
                    {<< RankRangeDefaultLo, RankRangeDefaultHi >>}

\* what the entries slider may hold
NumEntriesChoices == {NumEntriesMin, NumEntriesDefault, NumEntriesMax}

\* the state main() starts a run in
StartRun(table, countries, range, entries) ==
    /\ df = read_csv(table)
    /\ selected_countries = countries
    /\ rank_range = range
    /\ num_entries = entries
    /\ filtered_df = NoFrame
    /\ pc = "sidebar"
    /\ err = "none"
    /\ key_metrics = << >>
    /\ world_map = << >>
    /\ top_countries = << >>
    /\ top_cities = << >>
    /\ ranking_distribution = << >>
    /\ excellence_clusters = << >>
    /\ raw_data = << >>

\* one widget changes and main() runs again from the top: load_data() returns
\* the cached table, everything else is computed afresh
Rerun ==
    /\ pc \in {"done", "error"}
    /\ \/ /\ selected_countries' \in CountryChoices \ {selected_countries}
          /\ UNCHANGED << rank_range, num_entries >>
       \/ /\ rank_range' \in RankRangeChoices \ {rank_range}
          /\ UNCHANGED << selected_countries, num_entries >>
       \/ /\ num_entries' \in NumEntriesChoices \ {num_entries}
          /\ UNCHANGED << selected_countries, rank_range >>
    /\ UNCHANGED << script_vars, df >>
    /\ filtered_df' = NoFrame
    /\ pc' = "sidebar"
    /\ err' = "none"
    /\ key_metrics' = << >>
    /\ world_map' = << >>
    /\ top_countries' = << >>
    /\ top_cities' = << >>
    /\ ranking_distribution' = << >>
    /\ excellence_clusters' = << >>
    /\ raw_data' = << >>


(* ----------------- src/university-rankings-analysis.py ----------------- *)

\* head(15), head(20), head(10), q=10, the top-100 cut
TopCountriesShown == 15
TopCitiesShown == 15
ExplorerCountries == 20
ConcentrationRowsReturned == 10
Deciles == 10
Top100Rank == 100

BracketLabels ==
    << "Top 10%", "10-20%", "20-30%", "30-40%", "40-50%", "50-60%", "60-70%",
       "70-80%", "80-90%", "Bottom 10%" >>

\* the series in ascending order
sort_ascending(series) ==
    LET n == Len(series)
        pos(i) == Cardinality({j \in 1..n : series[j] < series[i]})
                  + Cardinality({j \in 1..(i - 1) : series[j] = series[i]})
                  + 1
    IN  Tuple([p \in 1..n |-> series[CHOOSE i \in 1..n : pos(i) = p]])

\* Series.quantile(k / q), linear interpolation, times q: with the sorted
\* values s (0-based) and k * (n - 1) = q * i + r it is q * s[i] + r * (s[i+1] - s[i])
quantile_times(s, k, q) ==
    LET n == Len(s)
        i == (k * (n - 1)) \div q
        r == (k * (n - 1)) % q
    IN  IF r = 0 THEN q * s[i + 1]
        ELSE q * s[i + 1] + r * (s[i + 2] - s[i + 1])

\* pd.qcut's q + 1 bin edges (times q), lowest first, for a series that is
\* not empty: the quantiles 0, 1/q, .., 1 of the sorted values s
quantiles_times(s, q) == Tuple([k \in 1..(q + 1) |-> quantile_times(s, k - 1, q)])

qcut_edges(series, q) == quantiles_times(sort_ascending(series), q)

\* pd.qcut raises ValueError: the series is empty (the edges are NaN) or two
\* edges are equal (duplicates='raise')
qcut_raises(series, q) ==
    \/ Len(series) = 0
    \/ Cardinality({k : k \in Range(qcut_edges(series, q))}) < q + 1

\* the label of each value (times q) among the edges e: x is in bin k when
\* e[k] < x <= e[k+1], the lowest edge included in the first bin
bins_to_cuts(series, e, q, labels) ==
    Tuple([i \in DOMAIN series |->
            IF q * series[i] = e[1] THEN labels[1]
            ELSE labels[Cardinality({k \in DOMAIN e : e[k] < q * series[i]})]])

\* pd.qcut(series, q, labels)
qcut(series, q, labels) == bins_to_cuts(series, qcut_edges(series, q), q, labels)

\* numpy round to an integer, halves to even: num / den for den > 0, num >= 0
round_half_even(num, den) ==
    LET f == num \div den
        r == num % den
    IN  IF 2 * r < den THEN f
        ELSE IF 2 * r > den THEN f + 1
        ELSE IF f % 2 = 0 THEN f ELSE f + 1

\* Series.cumsum()
cumsum(series) == Tuple([k \in DOMAIN series |-> SumSeq(SubSeq(series, 1, k))])

\* the mutant of share_of_total: the share cut to 2 decimals, not rounded
share_of_total_truncated(count, total) == (count * 10000) \div total

\* (count / total_unis * 100).round(2), in hundredths of a percent
share_of_total(count, total) == round_half_even(count * 10000, total)

\* calculate_concentration_index: the concentration_index frame, shares and
\* cumulative shares in hundredths of a percent
\* 'Share_of_Total': (country_counts.values / total_unis * 100).round(2)
shares_of_total(country_counts, total_unis) ==
    Tuple([k \in DOMAIN country_counts |->
            share_of_total(country_counts[k].count, total_unis)])

\* pd.DataFrame({...}) and the Cumulative_Share column added to it
concentration_frame(country_counts, shares, cumulative) ==
    Tuple([k \in DOMAIN country_counts |->
            [Country          |-> country_counts[k].key,
             University_Count |-> country_counts[k].count,
             Share_of_Total   |-> shares[k],
             Cumulative_Share |-> cumulative[k]]])

concentration_with_shares(country_counts, shares) ==
    concentration_frame(country_counts, shares, cumsum(shares))

concentration_of_counts(country_counts, total_unis) ==
    concentration_with_shares(country_counts,
                              shares_of_total(country_counts, total_unis))

concentration_index_of(frame) ==
    concentration_of_counts(value_counts(Column(frame, "Country")), len(frame))

\* the __main__ block calls name next: the call before it has returned
Call(name, before) ==
    /\ script_err = "none"
    /\ script_last = before
    /\ script_last' = name
    /\ UNCHANGED app_vars

\* the call returns value and leaves the global df alone
Returns(value) ==
    /\ script_ret' = value
    /\ script_err' = script_err
    /\ lorenz_curve' = << >>
    /\ script_df' = script_df

create_university_map ==
    /\ Call("create_university_map", "import")
    /\ Returns(value_counts(Column(script_df, "Country")))

plot_top_countries ==
    /\ Call("plot_top_countries", "create_university_map")
    /\ Returns(head(value_counts(Column(script_df, "Country")), TopCountriesShown))

\* assigns the Rank_Bracket column on the global df, unless qcut raises
analyze_ranking_distribution ==
    /\ Call("analyze_ranking_distribution", "plot_top_countries")
    /\ lorenz_curve' = << >>
    /\ IF qcut_raises(Column(script_df, "Global Rank"), Deciles)
       THEN /\ script_err' = "ValueError"
            /\ UNCHANGED << script_df, script_ret >>
       ELSE /\ script_err' = script_err
            /\ script_df' = SetColumn(script_df, "Rank_Bracket",
                                qcut(Column(script_df, "Global Rank"), Deciles,
                                     BracketLabels))
            /\ script_ret' = value_counts_categorical(
                                Column(script_df', "Rank_Bracket"), BracketLabels)

analyze_university_cities ==
    /\ Call("analyze_university_cities", "analyze_ranking_distribution")
    /\ Returns(head(value_counts(Column(script_df, "City")), TopCitiesShown))

\* df[df[column] <= bound]
at_most(frame, column, bound) ==
    BooleanIndex(frame, {i \in DOMAIN frame.rows : frame.rows[i][column] <= bound})

analyze_top_100 ==
    /\ Call("analyze_top_100", "analyze_university_cities")
    /\ Returns(value_counts(Column(at_most(script_df, "Global Rank", Top100Rank),
                                   "Country")))

\* df[df[column].isin(values)]
isin(frame, column, values) ==
    BooleanIndex(frame, {i \in DOMAIN frame.rows : frame.rows[i][column] \in values})

\* .index of a counts series
index(counts) == Range(Tuple([k \in DOMAIN counts |-> counts[k].key]))

create_rankings_explorer ==
    /\ Call("create_rankings_explorer", "analyze_top_100")
    /\ Returns(isin(script_df, "Country",
                    index(head(value_counts(Column(script_df, "Country")),
                               ExplorerCountries))).rows)

\* assigns the Ranking_Cluster column on the global df
analyze_excellence_clusters ==
    /\ Call("analyze_excellence_clusters", "create_rankings_explorer")
    /\ script_err' = script_err
    /\ lorenz_curve' = << >>
    /\ script_df' = with_ranking_cluster(script_df)
    /\ script_ret' = cluster_counts_of(script_df')

\* the y values of the curve plotted from the concentration_index frame
lorenz_y(concentration_index) ==
    << 0 >> \o Tuple([k \in DOMAIN concentration_index |->
                        concentration_index[k].Cumulative_Share])

\* what the call plots and returns, from its concentration_index frame
concentration_results(concentration_index) ==
    /\ lorenz_curve' = lorenz_y(concentration_index)
    /\ script_ret' = head(concentration_index, ConcentrationRowsReturned)

calculate_concentration_index ==
    /\ Call("calculate_concentration_index", "analyze_excellence_clusters")
    /\ script_err' = script_err
    /\ script_df' = script_df
    /\ concentration_results(concentration_index_of(script_df))

\* the script's __main__ block: the eight calls, in this order; an exception
\* that a call raises ends the script
ScriptNext ==
    \/ create_university_map
    \/ plot_top_countries
    \/ analyze_ranking_distribution
    \/ analyze_university_cities
    \/ analyze_top_100
    \/ create_rankings_explorer
    \/ analyze_excellence_clusters
    \/ calculate_concentration_index

ScriptCountries == << "Canada", "China", "Germany", "Japan", "UK", "USA" >>

ScriptCity ==
    [c \in {"Canada", "China", "Germany", "Japan", "UK", "USA"} |->
        CASE c = "Canada"  -> "Toronto"
          [] c = "China"   -> "Beijing"
          [] c = "Germany" -> "Berlin"
          [] c = "Japan"   -> "Tokyo"
          [] c = "UK"      -> "London"
          [] c = "USA"     -> "Boston"]

RECURSIVE MaxOf(_)
MaxOf(s) == IF s = << >> THEN 0
            ELSE IF Head(s) >= MaxOf(Tail(s)) THEN Head(s) ELSE MaxOf(Tail(s))

RECURSIVE CountrySequences(_)
\* the sequences of k country indices in which a country that has not
\* appeared yet is always the next one of ScriptCountries (the script never
\* looks at a country's name, only at which rows share one)
CountrySequences(k) ==
    IF k = 0 THEN {<< >>}
    ELSE UNION {{Append(s, c) : c \in 1..Min(Len(ScriptCountries), MaxOf(s) + 1)} :
                   s \in CountrySequences(k - 1)}

\* the rank of the row before the first
RankBases == {0, 96, 4996}

\* the script's tables: a ranking list, row i has rank base + i
ScriptTables ==
    {Tuple([i \in DOMAIN s[1] |->
                CsvRow(s[2] + i, ScriptCountries[s[1][i]],
                       ScriptCity[ScriptCountries[s[1][i]]])]) :
        s \in (UNION {CountrySequences(k) : k \in 0..MaxScriptRows}) \X RankBases}

\* no dashboard session
AppIdle == StartRun(<< >>, {}, << RankRangeDefaultLo, RankRangeDefaultHi >>,
                    NumEntriesDefault)

\* the script after df = pd.read_csv(...)
ScriptStart(table) ==
    /\ script_df = read_csv(table)
    /\ script_err = "none"
    /\ script_last = "import"
    /\ script_ret = << >>
    /\ lorenz_curve = << >>

(* --------------------------- specifications ---------------------------- *)

\* the dashboard: a session of runs over one loaded table
Init ==
    /\ \E table \in Tables(MaxRows, SessionRows) :
          StartRun(table, {}, << RankRangeDefaultLo, RankRangeDefaultHi >>,
                   NumEntriesDefault)
    /\ ScriptStart(<< >>)

Next == Run \/ Rerun

Spec == Init /\ [][Next]_vars

\* one run of main() on a table of one rank, any n for head(n)
TopRows ==
    {CsvRow(1, c, t) : c \in {"Canada", "UK", "USA"}, t \in {"London", "Oxford"}}

InitTopN ==
    /\ \E table \in Tables(MaxRows, TopRows), n \in 0..MaxEntries :
          StartRun(table, {}, << RankRangeDefaultLo, RankRangeDefaultHi >>, n)
    /\ ScriptStart(<< >>)

SpecTopN == InitTopN /\ [][Run]_vars

\* one run of main() on a table whose ranks sit at the edges of the bands
\* and inside them
BandEdgeRanks == {1, 100, 101, 500, 501, 1000, 1001, 5000, 5001}

BandRanks == BandEdgeRanks \cup {50, 3000, 9999}

ClusterRows == {CsvRow(r, "UK", "London") : r \in BandRanks}

InitClusters ==
    /\ \E table \in Tables(MaxRows, ClusterRows) :
          StartRun(table, {}, << 1, 9999 >>, NumEntriesDefault)
    /\ ScriptStart(<< >>)

SpecClusters == InitClusters /\ [][Run]_vars

\* the report script
ScriptInit ==
    /\ AppIdle
    /\ \E table \in ScriptTables : ScriptStart(table)

SpecScript == ScriptInit /\ [][ScriptNext]_vars


(* ------------------------------- claims -------------------------------- *)

\* the position of a string in lexicographic order
LexRank(x) == CHOOSE k \in DOMAIN KeyOrder : KeyOrder[k] = x

\* main() has filtered and has not yet drawn the cluster chart
Filtered ==
    \/ pc \in {"key_metrics", "world_map", "top_countries", "top_cities",
               "ranking_distribution", "excellence_clusters"}
    \/ pc = "error" /\ filtered_df # NoFrame

\* what the filter contract keeps
Selected(r) ==
    /\ rank_range[1] <= r["Global Rank"]
    /\ r["Global Rank"] <= rank_range[2]
    /\ selected_countries # {} => r["Country"] \in selected_countries

\* C1: the filtered table holds exactly the records of the loaded table whose
\* rank lies in [min, max], both ends included, and whose country is selected
\* when any country is selected, in their original order; with no country
\* selected and a range that spans every rank it is the loaded table
C1_FilterContract ==
    Filtered =>
        /\ filtered_df.columns = df.columns
        /\ filtered_df.rows = SelectSeq(df.rows, Selected)
        /\ (/\ selected_countries = {}
            /\ rank_range[1] <= 1
            /\ \A i \in DOMAIN df.rows : df.rows[i]["Global Rank"] <= rank_range[2])
           => filtered_df = df

C1_Witness ==
    /\ pc = "key_metrics"
    /\ Len(df.rows) = 3
    /\ Len(filtered_df.rows) = 1
    /\ selected_countries # {}
    /\ \E i \in DOMAIN df.rows :
          /\ df.rows[i]["Country"] \notin selected_countries
          /\ df.rows[i]["Global Rank"] = rank_range[2]
    /\ \E i \in DOMAIN df.rows :
          /\ df.rows[i]["Country"] \in selected_countries
          /\ df.rows[i]["Global Rank"] > rank_range[2]
    /\ filtered_df.rows[1]["Global Rank"] = rank_range[2]

\* the widgets hold what the dashboard's own controls can produce
WidgetsFeasible ==
    /\ rank_range[1] <= rank_range[2]
    /\ selected_countries \subseteq Range(Column(df, "Country"))

\* C2: when the filter leaves no record the metrics are all 0 and main()
\* raises nothing
C2_EmptyTableIsNotAnError ==
    (/\ pc \notin {"sidebar", "filter", "key_metrics"}
     /\ WidgetsFeasible
     /\ df.rows # << >>
     /\ filtered_df.rows = << >>)
    => /\ err = "none"
       /\ key_metrics = << << "Total Universities", 0 >>, << "Countries", 0 >>,
                           << "Cities", 0 >>, << "Average Rank", 0 >> >>

\* C5: the Average Rank metric of a table that is not empty is an integer
\* nearest to the mean of its ranks
C5_AverageRankNearest ==
    (/\ Len(key_metrics) = 4
     /\ filtered_df.rows # << >>)
    => LET total == SumSeq(Column(filtered_df, "Global Rank"))
           n     == Len(filtered_df.rows)
           shown == key_metrics[4][2]
           off   == IF shown * n >= total THEN shown * n - total
                    ELSE total - shown * n
       IN  2 * off <= n

\* C8: the counts of the country aggregate sum to the number of rows: each
\* row is counted under exactly one key
C8_CountsSumToTotal ==
    pc \in {"top_countries", "top_cities", "ranking_distribution",
            "excellence_clusters"}
    => /\ SumSeq([k \in DOMAIN world_map |-> world_map[k].count])
              = Len(filtered_df.rows)
       /\ key_metrics[1][2] = Len(filtered_df.rows)
       /\ \A j, k \in DOMAIN world_map :
              world_map[j].key = world_map[k].key => j = k
       /\ \A i \in DOMAIN filtered_df.rows :
              \E k \in DOMAIN world_map :
                  world_map[k].key = filtered_df.rows[i]["Country"]

C8_Witness ==
    /\ pc = "top_countries"
    /\ Len(filtered_df.rows) = 3
    /\ Len(world_map) = 2

\* C9: a rank range with min > max keeps no record, and the filter step
\* itself raises nothing
C9_InvertedRangeIsEmpty ==
    (rank_range[1] > rank_range[2])
    => /\ Filtered => filtered_df.rows = << >> /\ filtered_df.columns = df.columns
       /\ pc = "key_metrics" => err = "none"

C9_Witness ==
    /\ pc = "key_metrics"
    /\ rank_range[1] > rank_range[2]
    /\ Len(df.rows) = 3
    /\ \A i \in DOMAIN df.rows :
          /\ rank_range[2] <= df.rows[i]["Global Rank"]
          /\ df.rows[i]["Global Rank"] <= rank_range[1]
    /\ filtered_df.rows = << >>

\* main() is at a step that computes a metric or a chart from filtered_df
Aggregating ==
    pc \in {"key_metrics", "world_map", "top_countries", "top_cities",
            "ranking_distribution", "excellence_clusters"}

\* C10: no step changes the loaded table, and no aggregation step changes
\* the table it is passed: same records, same fields
C10_TablesAreReadOnly ==
    [][/\ df' = df
       /\ Aggregating => filtered_df' = filtered_df]_vars

(* claims about head(n) of the counts: SpecTopN *)

\* the first row of the filtered table that holds key in the column
FirstRow(column, key) ==
    CHOOSE i \in DOMAIN filtered_df.rows :
        /\ filtered_df.rows[i][column] = key
        /\ \A j \in 1..(i - 1) : filtered_df.rows[j][column] # key

DistinctCount(column) == Cardinality(Range(Column(filtered_df, column)))

\* top is the counts of the column, largest count first, cut to n entries
TopNShape(top, column) ==
    /\ Len(top) = Min(num_entries, DistinctCount(column))
    /\ \A k \in DOMAIN top :
          top[k].count = Cardinality({i \in DOMAIN filtered_df.rows :
                                         filtered_df.rows[i][column] = top[k].key})
    /\ \A j, k \in DOMAIN top : j < k => top[j].count >= top[k].count
    /\ \A j, k \in DOMAIN top : j < k => top[j].key # top[k].key
    \* nothing left out has a larger count than something kept
    /\ \A x \in Range(Column(filtered_df, column)) :
          (\A k \in DOMAIN top : top[k].key # x)
          => \A k \in DOMAIN top :
                top[k].count >= Cardinality({i \in DOMAIN filtered_df.rows :
                                                filtered_df.rows[i][column] = x})

TopCharts == pc \in {"ranking_distribution", "excellence_clusters", "raw_data", "done"}

ExpectedCluster(r) ==
    IF r <= 100 THEN "Elite (1-100)"
    ELSE IF r <= 500 THEN "Premier (101-500)"
    ELSE IF r <= 1000 THEN "Distinguished (501-1000)"
    ELSE IF r <= 5000 THEN "Notable (1001-5000)"
    ELSE "Emerging (5000+)"

\* the bands the claim names for ranks 1, 100, 101, 500, 501, 1000, 1001,
\* 5000, 5001
ClusterAtEdge ==
    (1 :> "Elite (1-100)") @@ (100 :> "Elite (1-100)")
    @@ (101 :> "Premier (101-500)") @@ (500 :> "Premier (101-500)")
    @@ (501 :> "Distinguished (501-1000)") @@ (1000 :> "Distinguished (501-1000)")
    @@ (1001 :> "Notable (1001-5000)") @@ (5000 :> "Notable (1001-5000)")
    @@ (5001 :> "Emerging (5000+)")

Clustered == pc \in {"raw_data", "done"}

\* C6: the cluster counts are listed in the band order Elite, Premier,
\* Distinguished, Notable, Emerging, whatever the counts are
C6_ClustersInBandOrder ==
    Clustered =>
        [k \in DOMAIN excellence_clusters |-> excellence_clusters[k].key]
            = ClusterLabels

\* C7: every rank gets exactly one band, upper bounds included; the ranks
\* at the edges get the bands the claim lists
C7_ClusterOfRank ==
    Clustered =>
        \A i \in DOMAIN filtered_df.rows :
            LET r == filtered_df.rows[i]["Global Rank"]
                c == filtered_df.rows[i]["Ranking_Cluster"]
            IN  /\ c = ExpectedCluster(r)
                /\ r \in BandEdgeRanks => c = ClusterAtEdge[r]
                /\ Cardinality({k \in DOMAIN ClusterLabels : ClusterLabels[k] = c}) = 1

C7_Witness ==
    /\ pc = "raw_data"
    /\ Len(filtered_df.rows) = 3
    /\ filtered_df.rows[1]["Global Rank"] = 100
    /\ filtered_df.rows[1]["Ranking_Cluster"] = "Elite (1-100)"
    /\ filtered_df.rows[2]["Global Rank"] = 101
    /\ filtered_df.rows[2]["Ranking_Cluster"] = "Premier (101-500)"
    /\ filtered_df.rows[3]["Global Rank"] = 5001
    /\ filtered_df.rows[3]["Ranking_Cluster"] = "Emerging (5000+)"

(* claims about the concentration index: SpecScript *)

Concentrated == script_last = "calculate_concentration_index"

\* the distance of a share in hundredths of a percent from count / total
ShareOff(share, count, total) ==
    IF share * total >= count * 10000 THEN share * total - count * 10000
    ELSE count * 10000 - share * total

\* the rows are the countries by descending count, each share is
\* count / total * 100 rounded to 2 decimals, the cumulative share is the
\* running sum of the shares and never decreases
ConcentrationShape(rows) ==
    /\ \A j, k \in DOMAIN rows : j < k => rows[j].University_Count >= rows[k].University_Count
    /\ \A j, k \in DOMAIN rows : j < k => rows[j].Country # rows[k].Country
    /\ \A k \in DOMAIN rows :
          /\ rows[k].University_Count =
                 Cardinality({i \in DOMAIN script_df.rows :
                                 script_df.rows[i]["Country"] = rows[k].Country})
          /\ 2 * ShareOff(rows[k].Share_of_Total, rows[k].University_Count,
                          Len(script_df.rows)) <= Len(script_df.rows)
          /\ rows[k].Cumulative_Share =
                 (IF k = 1 THEN 0 ELSE rows[k - 1].Cumulative_Share)
                 + rows[k].Share_of_Total
          /\ k > 1 => rows[k - 1].Cumulative_Share <= rows[k].Cumulative_Share
    /\ Len(rows) = Min(ConcentrationRowsReturned,
                       Cardinality(Range(Column(script_df, "Country"))))

\* the distance of the last cumulative share from 100.00, in hundredths
LastOff(rows) ==
    IF rows[Len(rows)].Cumulative_Share >= 10000
    THEN rows[Len(rows)].Cumulative_Share - 10000
    ELSE 10000 - rows[Len(rows)].Cumulative_Share

=============================================================================
